---- MODULE Spec2Model ----
(***************************************************************************)
(* Model of update.py: the directory walk, the path classifier, the        *)
(* per-file article extraction, the two renderers and the template         *)
(* substitution of update_index_html.                                      *)
(*                                                                         *)
(* Python strings are sequences of one-character strings, so that upper(), *)
(* startswith(), endswith(), the \d{8} search and string comparison are    *)
(* computed and not assumed.  None is a value no string equals.            *)
(***************************************************************************)
EXTENDS Integers, Sequences, FiniteSets, TLC

VARIABLES
  pc,            \* position of the run
  tree,          \* directories os.walk has still to yield, top-down
  structure,     \* get_project_structure's dict: folder_key -> group
  errors,        \* file paths printed by "Error processing ..."
  template,      \* content read from index_template.html
  template_read, \* whether line 171 was reached (the template opened)
  output,        \* content of index.html
  output_opened, \* whether index.html was opened for writing
  news_list,     \* items rendered by generate_news_list_html
  stdout,        \* the run's last printed summary line
  result,        \* update_index_html's return value
  path_parts,    \* input of get_language_info_from_path
  lang_info,     \* its result
  md_file,       \* a file name whose date is extracted
  mtime,         \* that file's formatted modification date
  date_formatted \* the extracted date

vars == <<pc, tree, structure, errors, template, template_read, output,
          output_opened, news_list, stdout, result, path_parts, lang_info,
          md_file, mtime, date_formatted>>

walkVars == <<pc, tree, structure, errors, template, template_read, output,
              output_opened, news_list, stdout, result>>
classifyVars == <<path_parts, lang_info>>
dateVars == <<md_file, mtime, date_formatted>>

----------------------------------------------------------------------------
\* Bounds of the model.

\* Most files in a tree.
MaxFiles == 3
\* Longest path given to the classifier on its own.
MaxParts == 4
\* Longest file-name stem given to the date extraction on its own.
MaxStem == 9

----------------------------------------------------------------------------
\* Strings.

None == <<"<None>">>

Truthy(x) == x # None /\ x # <<>>

Lower == <<"a","b","c","d","e","f","g","h","i","j","k","l","m",
           "n","o","p","q","r","s","t","u","v","w","x","y","z">>
Capital == <<"A","B","C","D","E","F","G","H","I","J","K","L","M",
             "N","O","P","Q","R","S","T","U","V","W","X","Y","Z">>
Digits == <<"0","1","2","3","4","5","6","7","8","9">>

\* The characters in code-point order (str comparison is by code point).
Ascii == <<" ", "-", ".", "/">> \o Digits \o Capital \o <<"_">> \o Lower

Chars == { Ascii[i] : i \in 1..Len(Ascii) }

\* ord(c), up to the order
OrdTable == [c \in Chars |-> CHOOSE i \in 1..Len(Ascii) : Ascii[i] = c]

Ord(c) == OrdTable[c]

\* c.upper()
UpperTable ==
  [c \in Chars |->
     IF \E i \in 1..Len(Lower) : Lower[i] = c
     THEN Capital[CHOOSE i \in 1..Len(Lower) : Lower[i] = c]
     ELSE c]

Upper(c) == UpperTable[c]

\* str.upper()
UpperStr(s) == [i \in 1..Len(s) |-> Upper(s[i])]

\* a < b on str
RECURSIVE StrLess(_, _)
StrLess(a, b) ==
  IF b = <<>> THEN FALSE
  ELSE IF a = <<>> THEN TRUE
  ELSE IF a[1] # b[1] THEN Ord(a[1]) < Ord(b[1])
  ELSE StrLess(Tail(a), Tail(b))

StartsWith(s, p) == Len(s) >= Len(p) /\ SubSeq(s, 1, Len(p)) = p
EndsWith(s, p) == Len(s) >= Len(p) /\ SubSeq(s, Len(s) - Len(p) + 1, Len(s)) = p

DotMd == <<".","m","d">>
ReadmeMd == <<"R","E","A","D","M","E",".","m","d">>
News == <<"n","e","w","s">>
Dot == <<".">>

\* str.replace('.md', ''): every occurrence, leftmost first
RECURSIVE RemoveMd(_)
RemoveMd(s) ==
  IF Len(s) < 3 THEN s
  ELSE IF SubSeq(s, 1, 3) = DotMd THEN RemoveMd(SubSeq(s, 4, Len(s)))
  ELSE <<s[1]>> \o RemoveMd(Tail(s))

----------------------------------------------------------------------------
\* get_language_info_from_path: lines 5-19.

\* The classifier without the news/ convention of lines 9-12.
get_language_info_from_path_no_news(parts) ==
  IF Len(parts) >= 2
  THEN <<UpperStr(parts[1]), UpperStr(parts[2])>>
  ELSE <<None, None>>

\* Lines 7-19
get_language_info_from_path(parts) ==
  IF Len(parts) >= 2
  THEN IF parts[1] = News /\ Len(parts) >= 3
       THEN <<UpperStr(parts[2]), UpperStr(parts[3])>>
       ELSE <<UpperStr(parts[1]), UpperStr(parts[2])>>
  ELSE <<None, None>>

----------------------------------------------------------------------------
\* The date of an article: lines 63-75.

DigitSet == { Digits[i] : i \in 1..Len(Digits) }

\* \d
IsDigit(c) == c \in DigitSet

DigitTable == [c \in DigitSet |-> (CHOOSE i \in 1..Len(Digits) : Digits[i] = c) - 1]

DigitVal(c) == DigitTable[c]

\* int() of a run of digits
RECURSIVE Num(_)
Num(ds) ==
  IF ds = <<>> THEN 0
  ELSE 10 * Num(SubSeq(ds, 1, Len(ds) - 1)) + DigitVal(ds[Len(ds)])

RunAt(name, i) == \A j \in i..(i + 7) : IsDigit(name[j])

\* re.search(r'(\d{8})', name): the leftmost eight consecutive digits
SearchDigits8(name) ==
  IF \E i \in 1..(Len(name) - 7) : RunAt(name, i)
  THEN LET i == CHOOSE k \in 1..(Len(name) - 7) :
                  RunAt(name, k) /\ \A l \in 1..(k - 1) : ~RunAt(name, l)
       IN SubSeq(name, i, i + 7)
  ELSE None

IsLeap(y) == (y % 4 = 0 /\ y % 100 # 0) \/ y % 400 = 0

DaysInMonth(y, m) ==
  IF m = 2 THEN (IF IsLeap(y) THEN 29 ELSE 28)
  ELSE IF m \in {4, 6, 9, 11} THEN 30 ELSE 31

\* Whether datetime.strptime(ds, '%Y%m%d') accepts eight digits: %Y takes four
\* of them, %m and %d two each, and the date must exist (MINYEAR is 1).
StrptimeOk(ds) ==
  LET y == Num(SubSeq(ds, 1, 4))
      m == Num(SubSeq(ds, 5, 6))
      d == Num(SubSeq(ds, 7, 8))
  IN y >= 1 /\ m \in 1..12 /\ d >= 1 /\ d <= DaysInMonth(y, m)

RECURSIVE StripZeros(_)
StripZeros(ds) ==
  IF Len(ds) > 1 /\ ds[1] = "0" THEN StripZeros(Tail(ds)) ELSE ds

\* strftime('%Y-%m-%d') of the parsed date.  The C library's %Y does not pad the
\* year: years below 1000 print with fewer than four digits.
Strftime(ds) ==
  StripZeros(SubSeq(ds, 1, 4)) \o <<"-">> \o SubSeq(ds, 5, 6) \o <<"-">>
    \o SubSeq(ds, 7, 8)

\* Lines 64-75 without the except of lines 70-71.
ExtractDateNoFallback(name, mt) ==
  LET date_str == SearchDigits8(name)
  IN IF date_str # None
     THEN Strftime(date_str)
     ELSE mt

\* Lines 64-75; mt is the file's modification date as line 75 formats it.
ExtractDate(name, mt) ==
  LET date_str == SearchDigits8(name)
  IN IF date_str # None
     THEN IF StrptimeOk(date_str) THEN Strftime(date_str) ELSE date_str
     ELSE mt

----------------------------------------------------------------------------
\* get_project_structure: lines 21-94.
\*
\* A directory of the tree is [root, files]: root is the path os.walk gives it,
\* split at os.sep (<<".", "news", "en">> is ./news/en), and files its file
\* entries in listing order, each [name, readable, mtime].  readable says whether
\* open() and read() succeed (lines 56-57); mtime is the modification date.
\* The content of a file decides only the title and the summary, which are
\* left out of an article here.

\* Line 28: os.walk never descends into a directory dropped from dirs.
Pruned(root) == \E i \in 2..Len(root) : StartsWith(root[i], Dot)

\* Line 41
Qualifies(f) == EndsWith(f.name, DotMd) /\ f.name # ReadmeMd

md_files(files) == SelectSeq(files, Qualifies)

\* Line 43
folder_key(lang_code, media_name) ==
  IF Truthy(media_name) THEN lang_code \o <<"_">> \o media_name ELSE lang_code

\* Lines 83-89
Article(root, f) ==
  [filename |-> f.name,
   date |-> ExtractDate(f.name, f.mtime),
   filepath |-> Append(root, f.name)]

\* Lines 52-92 with a failure ending the loop instead of line 92's continue.
RECURSIVE ExtractAllBreak(_, _)
ExtractAllBreak(root, fs) ==
  IF fs = <<>> THEN <<>>
  ELSE IF Head(fs).readable
       THEN <<Article(root, Head(fs))>> \o ExtractAllBreak(root, Tail(fs))
       ELSE <<>>

\* Lines 52-92: the articles of the files that could be read, in order.
RECURSIVE ExtractAll(_, _)
ExtractAll(root, fs) ==
  IF fs = <<>> THEN <<>>
  ELSE IF Head(fs).readable
       THEN <<Article(root, Head(fs))>> \o ExtractAll(root, Tail(fs))
       ELSE ExtractAll(root, Tail(fs))

\* Line 91: the paths of the files that could not.
RECURSIVE FailedPaths(_, _)
FailedPaths(root, fs) ==
  IF fs = <<>> THEN <<>>
  ELSE IF Head(fs).readable
       THEN FailedPaths(root, Tail(fs))
       ELSE <<Append(root, Head(fs).name)>> \o FailedPaths(root, Tail(fs))

\* Lines 44-50
NewGroup(lang_code, media_name, rel_path) ==
  [language_code |-> lang_code,
   media_name |-> media_name,
   folder_path |-> rel_path,
   articles |-> <<>>]

\* Lines 33-92: one iteration of the loop, on the directory d.
Visit(struct, d) ==
  LET rel_path == Tail(d.root)
      info == get_language_info_from_path(rel_path)
      lang_code == info[1]
      media_name == info[2]
      mds == md_files(d.files)
      key == folder_key(lang_code, media_name)
  IN IF mds # <<>> /\ Truthy(lang_code)
     THEN LET s == IF key \in DOMAIN struct THEN struct
                   ELSE (key :> NewGroup(lang_code, media_name, rel_path)) @@ struct
          IN [s EXCEPT ![key].articles = @ \o ExtractAll(d.root, mds)]
     ELSE struct

VisitErrors(d) ==
  LET info == get_language_info_from_path(Tail(d.root))
      mds == md_files(d.files)
  IN IF mds # <<>> /\ Truthy(info[1]) THEN FailedPaths(d.root, mds) ELSE <<>>

----------------------------------------------------------------------------
\* The renderers: lines 96-153.

\* sorted() of a set of strings
RECURSIVE SortStrings(_)
SortStrings(S) ==
  IF S = {} THEN <<>>
  ELSE LET m == CHOOSE x \in S : \A y \in S \ {x} : StrLess(x, y)
       IN <<m>> \o SortStrings(S \ {m})

\* Lines 96-101
get_existing_languages(struct) ==
  SortStrings({struct[k].language_code : k \in DOMAIN struct})

\* Lines 103-116: "" without languages, else a showcase div around one span
\* per language.
generate_language_showcase_html(languages) ==
  IF languages = <<>> THEN <<>>
  ELSE <<[kind |-> "div_open", text |-> "", langs |-> <<>>, items |-> <<>>]>>
       \o [i \in 1..Len(languages) |->
             [kind |-> "span", text |-> "", langs |-> <<languages[i]>>,
              items |-> <<>>]]
       \o <<[kind |-> "div_close", text |-> "", langs |-> <<>>, items |-> <<>>]>>

\* Line 137: list.sort(key=date, reverse=True) is stable: an article goes after
\* every article whose date is not smaller.
RECURSIVE InsertByDate(_, _)
InsertByDate(sorted, a) ==
  IF sorted = <<>> THEN <<a>>
  ELSE IF StrLess(Head(sorted).date, a.date)
       THEN <<a>> \o sorted
       ELSE <<Head(sorted)>> \o InsertByDate(Tail(sorted), a)

\* Line 137 left out: the articles in the order they were appended.
SortUnsorted(articles, acc) == acc \o articles

RECURSIVE SortByDate(_, _)
SortByDate(articles, acc) ==
  IF articles = <<>> THEN acc
  ELSE SortByDate(Tail(articles), InsertByDate(acc, Head(articles)))

\* Line 137 sorts each group's list in place.
SortedStructure(struct) ==
  [k \in DOMAIN struct |->
     [struct[k] EXCEPT !.articles = SortByDate(@, <<>>)]]

\* Lines 131-134
language_tag(g) ==
  IF Truthy(g.media_name)
  THEN g.language_code \o <<" ", "-", " ">> \o g.media_name
  ELSE g.language_code

\* Lines 139-151: one item per article of a group g whose list is sorted.
GroupItems(g) ==
  [i \in 1..Len(g.articles) |->
     [date |-> g.articles[i].date,
      tag |-> language_tag(g),
      href |-> [j \in 1..Len(g.articles[i].filepath) |->
                  RemoveMd(g.articles[i].filepath[j])]]]

RECURSIVE ItemsOf(_, _)
ItemsOf(struct, keys) ==
  IF keys = <<>> THEN <<>>
  ELSE GroupItems(struct[Head(keys)]) \o ItemsOf(struct, Tail(keys))

\* Lines 118-153, on the structure after line 137
generate_news_list_html(struct) ==
  ItemsOf(struct, SortStrings(DOMAIN struct))

----------------------------------------------------------------------------
\* The template: lines 170-188.
\*
\* A document is a sequence of tokens: text, the opening and closing tags of
\* the two regions, and the rendered fragments.

Text(t) == [kind |-> "text", text |-> t, langs |-> <<>>, items |-> <<>>]
Tag(k) == [kind |-> k, text |-> "", langs |-> <<>>, items |-> <<>>]
ItemTokens(n) ==
  [i \in 1..Len(n) |->
     [kind |-> "item", text |-> "", langs |-> <<>>, items |-> <<n[i]>>]]

HasClose(doc, close) == \E j \in 2..Len(doc) : doc[j].kind = close

FirstClose(doc, close) ==
  CHOOSE j \in 2..Len(doc) :
    doc[j].kind = close /\ \A l \in 2..(j - 1) : doc[l].kind # close

\* re.sub(r'(open\s*).*?(\s*close)', repl, doc, flags=re.DOTALL): every match,
\* leftmost first, each ending at the first close after its open.  repl is
\* \1 frag \2 when keep, and '' otherwise; a document without a match comes
\* back as it is.
RECURSIVE ReSub(_, _, _, _, _)
ReSub(doc, open, close, frag, keep) ==
  IF doc = <<>> THEN <<>>
  ELSE IF doc[1].kind = open /\ HasClose(doc, close)
       THEN LET j == FirstClose(doc, close)
            IN (IF keep THEN <<doc[1]>> \o frag \o <<doc[j]>> ELSE <<>>)
               \o ReSub(SubSeq(doc, j + 1, Len(doc)), open, close, frag, keep)
       ELSE <<doc[1]>> \o ReSub(Tail(doc), open, close, frag, keep)

\* Lines 175-188
Substitute(template_content, showcase, items) ==
  LET with_langs ==
        ReSub(template_content, "div_open", "div_close",
              showcase, showcase # <<>>)
  IN ReSub(with_langs, "ul_open", "ul_close", ItemTokens(items), TRUE)

HasNewsListRegion(doc) ==
  \E i \in 1..Len(doc) :
    doc[i].kind = "ul_open" /\ \E j \in (i + 1)..Len(doc) : doc[j].kind = "ul_close"

----------------------------------------------------------------------------
\* The trees, templates and documents the run is given.

sNews == News
sEn == <<"e","n">>
sBbc == <<"b","b","c">>
sA_B == <<"a","_","b">>
sC == <<"c">>
sA == <<"a">>
sB_C == <<"b","_","c">>
sHid == <<".","h">>

Roots ==
  { <<Dot>>,
    <<Dot, sNews>>,
    <<Dot, sNews, sEn, sBbc>>,
    <<Dot, sEn, sBbc>>,
    <<Dot, sA_B, sC>>,
    <<Dot, sA, sB_C>>,
    <<Dot, sHid, sEn, sBbc>> }

fJan == <<"2","0","2","4","0","1","1","5",".","m","d">>
fMar == <<"2","0","2","4","0","3","0","1",".","m","d">>
fHid == <<".","h",".","m","d">>
mFeb == <<"2","0","2","4","-","0","2","-","0","1">>

FileEntries ==
  { [name |-> fJan, readable |-> TRUE, mtime |-> mFeb],
    [name |-> fJan, readable |-> FALSE, mtime |-> mFeb],
    [name |-> fMar, readable |-> TRUE, mtime |-> mFeb],
    [name |-> fMar, readable |-> FALSE, mtime |-> mFeb],
    [name |-> fHid, readable |-> TRUE, mtime |-> mFeb],
    [name |-> ReadmeMd, readable |-> TRUE, mtime |-> mFeb] }

\* The listings of a directory with 1..n files: no name twice.
Listings(n) ==
  UNION { { fs \in [1..k -> FileEntries] :
              \A i, j \in 1..k : i # j => fs[i].name # fs[j].name }
          : k \in 1..n }

IsProperPrefix(p, q) == Len(p) < Len(q) /\ SubSeq(q, 1, Len(p)) = p

\* tree is a tree with at most n more files after the directories of prefix,
\* as os.walk lists them top-down: no directory twice, none before one it
\* lies in.
RECURSIVE IsTree(_, _, _)
IsTree(prefix, n, seen) ==
  \/ tree = prefix
  \/ \E r \in { x \in Roots \ seen : \A y \in seen : ~IsProperPrefix(x, y) } :
       \E fs \in Listings(n) :
         IsTree(Append(prefix, [root |-> r, files |-> fs]), n - Len(fs),
                seen \cup {r})

Templates ==
  { <<Text("head"), Tag("div_open"), Text("old"), Tag("div_close"),
      Tag("ul_open"), Text("old"), Tag("ul_close"), Text("tail")>>,
    <<Text("head"), Tag("div_open"), Text("old"), Tag("div_close"),
      Text("tail")>>,
    <<Tag("ul_open"), Text("old"), Tag("ul_close")>> }

PreviousOutput == <<Text("previous index.html")>>

NotRun == "not run"

----------------------------------------------------------------------------
\* update_index_html: lines 155-199.

\* Line 161 with the test never true.
NoArticlesNever(struct) == FALSE

\* Line 161: an empty dict is false.
NoArticles(struct) == DOMAIN struct = {}

WalkInit ==
  /\ pc = "walk"
  /\ structure = <<>>
  /\ errors = <<>>
  /\ template = <<>>
  /\ template_read = FALSE
  /\ output = PreviousOutput
  /\ output_opened = FALSE
  /\ news_list = <<>>
  /\ stdout = ""
  /\ result = NotRun

ClassifyIdle == path_parts = <<>> /\ lang_info = <<>>

DateIdle == md_file = <<>> /\ mtime = None /\ date_formatted = None

Init == IsTree(<<>>, MaxFiles, {}) /\ WalkInit /\ ClassifyIdle /\ DateIdle

\* Lines 26-92: os.walk yields the next directory and the loop body runs on it.
WalkStep ==
  /\ pc = "walk"
  /\ tree # <<>>
  /\ LET d == Head(tree)
     IN IF Pruned(d.root) \/ d.root = <<Dot>>
        THEN UNCHANGED <<structure, errors>>
        ELSE /\ structure' = Visit(structure, d)
             /\ errors' = errors \o VisitErrors(d)
  /\ tree' = Tail(tree)
  /\ UNCHANGED <<pc, template, template_read, output, output_opened, news_list,
                 stdout, result, classifyVars, dateVars>>

Walked == pc = "walk" /\ tree = <<>>

\* Lines 161-163
UpdateNoArticles ==
  /\ Walked
  /\ NoArticles(structure)
  /\ stdout' = "No articles found in the project structure"
  /\ result' = "False"
  /\ pc' = "done"
  /\ UNCHANGED <<tree, structure, errors, template, template_read, output,
                 output_opened, news_list, classifyVars, dateVars>>

\* Lines 166-168: line 137 leaves every group's list sorted.
Rendered ==
  /\ Walked
  /\ ~NoArticles(structure)
  /\ structure' = SortedStructure(structure)
  /\ news_list' = generate_news_list_html(SortedStructure(structure))
  /\ template_read' = TRUE
  /\ pc' = "done"
  /\ UNCHANGED <<tree, errors, classifyVars, dateVars>>

Updated(t) ==
  Substitute(t,
    generate_language_showcase_html(get_existing_languages(structure)),
    generate_news_list_html(SortedStructure(structure)))

\* Lines 171-172 raise: the template cannot be opened or decoded.
UpdateTemplateUnreadable ==
  /\ Rendered
  /\ stdout' = "Error updating index.html"
  /\ result' = "False"
  /\ UNCHANGED <<template, output, output_opened>>

\* Line 191 raises: index.html cannot be opened for writing.
UpdateOpenFails ==
  /\ Rendered
  /\ \E t \in Templates : template' = t
  /\ stdout' = "Error updating index.html"
  /\ result' = "False"
  /\ UNCHANGED <<output, output_opened>>

\* Line 192 raises (the text cannot be encoded, the disk is full): open(.., 'w')
\* has emptied index.html, and less than the whole text has reached it.
UpdateWriteFails ==
  /\ Rendered
  /\ \E t \in Templates :
       /\ template' = t
       /\ \E n \in 0..(Len(Updated(t)) - 1) : output' = SubSeq(Updated(t), 1, n)
  /\ output_opened' = TRUE
  /\ stdout' = "Error updating index.html"
  /\ result' = "False"

\* Lines 171-195
UpdateSuccess ==
  /\ Rendered
  /\ \E t \in Templates :
       /\ template' = t
       /\ output' = Updated(t)
  /\ output_opened' = TRUE
  /\ stdout' = "Successfully updated index.html"
  /\ result' = "True"

Next ==
  \/ WalkStep
  \/ UpdateNoArticles
  \/ UpdateTemplateUnreadable
  \/ UpdateOpenFails
  \/ UpdateWriteFails
  \/ UpdateSuccess

Spec == Init /\ [][Next]_vars

----------------------------------------------------------------------------
\* get_language_info_from_path on its own.

sNewsCap == <<"N","e","w","s">>

Segments == {sNews, sNewsCap, sEn, sBbc, sA_B, sHid}

Paths(n) == UNION { [1..k -> Segments] : k \in 0..n }

ClassifyInit ==
  /\ path_parts \in Paths(MaxParts)
  /\ lang_info = <<>>
  /\ tree = <<>>
  /\ WalkInit
  /\ DateIdle

Classify ==
  /\ lang_info = <<>>
  /\ lang_info' = get_language_info_from_path(path_parts)
  /\ UNCHANGED <<path_parts, walkVars, dateVars>>

ClassifyNext == Classify

SpecClassify == ClassifyInit /\ [][ClassifyNext]_vars

----------------------------------------------------------------------------
\* The date of a file name on its own.

StemChars == {"0", "2", "9", "x"}

mDec == <<"2","0","2","3","-","1","2","-","3","1">>

MTimes == {mFeb, mDec}

DateInit ==
  /\ \E k \in 0..MaxStem : \E stem \in [1..k -> StemChars] : md_file = stem \o DotMd
  /\ mtime = None
  /\ date_formatted = None
  /\ tree = <<>>
  /\ WalkInit
  /\ ClassifyIdle

\* Lines 64-75; os.path.getmtime is called only without a run of digits.
DateOfFile ==
  /\ date_formatted = None
  /\ \E mt \in MTimes :
       /\ mtime' = IF SearchDigits8(md_file) = None THEN mt ELSE None
       /\ date_formatted' = ExtractDate(md_file, mt)
  /\ UNCHANGED <<md_file, walkVars, classifyVars>>

DateNext == DateOfFile

SpecDate == DateInit /\ [][DateNext]_vars

----------------------------------------------------------------------------
\* Properties.

Places(struct) ==
  UNION { { <<k, i>> : i \in 1..Len(struct[k].articles) } : k \in DOMAIN struct }

ArticleAt(struct, p) == struct[p[1]].articles[p[2]]

DirOf(filepath) == SubSeq(filepath, 1, Len(filepath) - 1)

CountArticles(struct, filepath) ==
  Cardinality({ p \in Places(struct) : ArticleAt(struct, p).filepath = filepath })

IsPrefixOf(s, t) == Len(s) <= Len(t) /\ SubSeq(t, 1, Len(s)) = s

NoLowerCase(s) == \A i \in 1..Len(s) : \A j \in 1..Len(Lower) : s[i] # Lower[j]

\* C1: the classifier returns (segment[1], segment[2]) upper-cased for a path
\* of at least 3 segments whose first is exactly 'news', else (segment[0],
\* segment[1]) upper-cased for a path of at least 2 segments, else (None, None).
C1_Classifier ==
  lang_info # <<>> =>
    /\ lang_info =
         IF Len(path_parts) >= 3 /\ path_parts[1] = <<"n","e","w","s">>
         THEN <<UpperStr(path_parts[2]), UpperStr(path_parts[3])>>
         ELSE IF Len(path_parts) >= 2
              THEN <<UpperStr(path_parts[1]), UpperStr(path_parts[2])>>
              ELSE <<None, None>>
    /\ Len(path_parts) >= 2 =>
         /\ NoLowerCase(lang_info[1])
         /\ NoLowerCase(lang_info[2])

\* C1's case: a path under news/ with a language and a media segment.
C1_Witness ==
  /\ Len(path_parts) = 4
  /\ path_parts[1] = News
  /\ path_parts[2] = sEn
  /\ lang_info = <<<<"E","N">>, UpperStr(path_parts[3])>>

\* Whether the file f of the directory d is one the walk makes an article of.
Contributes(d, f) ==
  /\ ~Pruned(d.root)
  /\ d.root # <<Dot>>
  /\ Truthy(get_language_info_from_path(Tail(d.root))[1])
  /\ EndsWith(f.name, DotMd)
  /\ f.name # ReadmeMd
  /\ f.readable

\* C2: in every iteration of the walk, each file of the directory that fails
\* to read adds no article, every qualifying file that reads adds exactly one,
\* the articles gathered before stay, and the walk goes on to the next
\* directory.
C2_FailuresIsolated ==
  [][ (pc = "walk" /\ tree # <<>>) =>
        LET d == Head(tree)
        IN /\ pc' = "walk"
           /\ tree' = Tail(tree)
           /\ \A i \in 1..Len(d.files) :
                CountArticles(structure', Append(d.root, d.files[i].name)) =
                  IF Contributes(d, d.files[i]) THEN 1 ELSE 0
           /\ \A k \in DOMAIN structure :
                /\ k \in DOMAIN structure'
                /\ IsPrefixOf(structure[k].articles, structure'[k].articles)
           /\ Cardinality(Places(structure')) =
                Cardinality(Places(structure))
                  + Cardinality({ i \in 1..Len(d.files) : Contributes(d, d.files[i]) })
    ]_vars

\* C2's case: a file failed, a file listed after it in the same directory
\* became an article, and so did a file of a directory visited later.
C2_Witness ==
  /\ pc = "walk"
  /\ tree = <<>>
  /\ errors # <<>>
  /\ \E k \in DOMAIN structure :
       \E i, j \in 1..Len(structure[k].articles) :
         /\ i < j
         /\ DirOf(structure[k].articles[i].filepath) = DirOf(errors[1])
         /\ DirOf(structure[k].articles[j].filepath) # DirOf(errors[1])

\* C3: with a template that has no news-list region the run returns failure
\* and the substituted document is not written to index.html.
C3_MissingRegionFatal ==
  (pc = "done" /\ template # <<>> /\ ~HasNewsListRegion(template)) =>
    /\ result = "False"
    /\ output # Updated(template)

\* C4: index.html is touched only once the structure is built, the fragments
\* rendered and the template read, and a run that returns failure leaves
\* index.html with the content it had.
C4_FailureLeavesOutput ==
  /\ (output_opened \/ output # PreviousOutput) =>
       (pc = "done" /\ template_read /\ template # <<>>)
  /\ (pc = "done" /\ result = "False") => output = PreviousOutput

ClassKey(dir) ==
  LET info == get_language_info_from_path(Tail(dir))
  IN IF Truthy(info[2]) THEN info[1] \o <<"_">> \o info[2] ELSE info[1]

\* C5: the articles of all directories with one group key lie in the one group
\* of that key; the news list has one item per article, groups in ascending
\* key order and, within a group, dates never increasing.
C5_MergedAndSorted ==
  /\ \A p \in Places(structure) :
       ClassKey(DirOf(ArticleAt(structure, p).filepath)) = p[1]
  /\ pc = "done" /\ ~NoArticles(structure) =>
       /\ Len(news_list) = Cardinality(Places(structure))
       /\ \A p \in Places(structure) :
            \E i \in 1..Len(news_list) :
              /\ news_list[i].date = ArticleAt(structure, p).date
              /\ news_list[i].href =
                   [j \in 1..Len(ArticleAt(structure, p).filepath) |->
                      RemoveMd(ArticleAt(structure, p).filepath[j])]
       /\ \A i, j \in 1..Len(news_list) :
            i < j =>
              /\ ~StrLess(ClassKey(DirOf(news_list[j].href)),
                          ClassKey(DirOf(news_list[i].href)))
              /\ ClassKey(DirOf(news_list[i].href)) =
                   ClassKey(DirOf(news_list[j].href))
                   => ~StrLess(news_list[i].date, news_list[j].date)

\* C5's case: a written page whose list holds, under one key, an article of
\* the directory seen second before an older one of the directory seen first.
C5_Witness ==
  /\ pc = "done"
  /\ result = "True"
  /\ \E i, j \in 1..Len(news_list) :
       /\ i < j
       /\ ClassKey(DirOf(news_list[i].href)) = ClassKey(DirOf(news_list[j].href))
       /\ StrLess(news_list[j].date, news_list[i].date)
       /\ Tail(DirOf(news_list[j].href)) =
            structure[ClassKey(DirOf(news_list[j].href))].folder_path
       /\ DirOf(news_list[i].href) # DirOf(news_list[j].href)

Dashed(ds) ==
  SubSeq(ds, 1, 4) \o <<"-">> \o SubSeq(ds, 5, 6) \o <<"-">> \o SubSeq(ds, 7, 8)

\* C6 as stated: whenever the file name holds eight digits anywhere that are a
\* valid date, the article's date is that date.
C6_AnyValidRun ==
  date_formatted # None =>
    \A i \in 1..(Len(md_file) - 7) :
      (RunAt(md_file, i) /\ StrptimeOk(SubSeq(md_file, i, i + 7)))
        => date_formatted = Strftime(SubSeq(md_file, i, i + 7))

\* C6, amended: the date comes from the leftmost eight consecutive digits of
\* the file name: that date as YYYY-MM-DD when they are a valid date of a year
\* from 1000 on (for an earlier year, with the year as strftime prints it,
\* padded or not), the eight digits themselves when they are no valid date,
\* and the modification date when the name has no eight consecutive digits.
C6_LeftmostRun ==
  date_formatted # None =>
    IF \E i \in 1..(Len(md_file) - 7) : RunAt(md_file, i)
    THEN \E i \in 1..(Len(md_file) - 7) :
           /\ RunAt(md_file, i)
           /\ \A l \in 1..(i - 1) : ~RunAt(md_file, l)
           /\ LET run == SubSeq(md_file, i, i + 7)
              IN IF StrptimeOk(run)
                 THEN IF Num(SubSeq(run, 1, 4)) >= 1000
                      THEN date_formatted = Dashed(run)
                      ELSE date_formatted \in {Dashed(run), Strftime(run)}
                 ELSE date_formatted = run
    ELSE date_formatted = mtime /\ mtime \in MTimes

\* C6's case: nine digits, of which the leftmost eight are 29 February 2020
\* and the eight from the second on are no date.
C6_Witness ==
  /\ Len(md_file) = 12
  /\ RunAt(md_file, 1)
  /\ RunAt(md_file, 2)
  /\ ~StrptimeOk(SubSeq(md_file, 2, 9))
  /\ date_formatted = <<"2","0","2","0","-","0","2","-","2","9">>

\* C7: no article comes from a file whose name begins with '.', nor from a
\* file under a directory whose name begins with '.'.
C7_NoHiddenEntries ==
  \A p \in Places(structure) :
    LET a == ArticleAt(structure, p)
    IN /\ ~StartsWith(a.filename, Dot)
       /\ \A i \in 2..Len(DirOf(a.filepath)) : ~StartsWith(a.filepath[i], Dot)

\* C8: with an empty structure the run reports that no articles were found,
\* returns failure, and neither reads the template nor writes index.html.
C8_EmptyStructure ==
  (pc = "done" /\ DOMAIN structure = {}) =>
    /\ stdout = "No articles found in the project structure"
    /\ result = "False"
    /\ ~template_read
    /\ template = <<>>
    /\ ~output_opened
    /\ output = PreviousOutput
    /\ news_list = <<>>

\* C8's case: a finished run that found no group.
C8_Witness ==
  /\ pc = "done"
  /\ DOMAIN structure = {}
  /\ result = "False"

\* C9: every group has at least one article, and a run that reports success
\* has rendered at least one item.
C9_GroupsNonEmpty ==
  /\ \A k \in DOMAIN structure : Len(structure[k].articles) >= 1
  /\ result = "True" => news_list # <<>>

\* C10: every article of a group comes from a directory that classifies to the
\* group's own language code and media name.
C10_SameClassification ==
  \A p \in Places(structure) :
    get_language_info_from_path(Tail(DirOf(ArticleAt(structure, p).filepath)))
      = <<structure[p[1]].language_code, structure[p[1]].media_name>>

====
